---- MODULE Spec2Model ----
(***************************************************************************)
(* Model of server/index.js: the socket.io handlers getUserData,           *)
(* startConversation, sendMessage and disconnect, the chatSessions map,    *)
(* the Supabase "profiles" table and the Gemini chat provider.             *)
(*                                                                         *)
(* Every handler is an async function: it runs atomically from one await   *)
(* to the next, and handlers of the same or of different sockets           *)
(* interleave at their awaits.  One action of the model is one such        *)
(* synchronous stretch of code.                                            *)
(***************************************************************************)
EXTENDS Integers, Sequences, FiniteSets, TLC

VARIABLES
    now,           \* the calendar day the server clock shows (UTC day number)
    profiles,      \* the Supabase table "profiles": userId -> row
    ver,           \* history: number of writes applied to each row
    chatSessions,  \* the Map chatSessions: socket id -> session object (0: none)
    sessions,      \* the session objects ever created, by identity
    completions,   \* history: times the completion block ran, per session object
    connected,     \* socket id -> the socket has not disconnected
    handlers,      \* socket id -> slot -> an invocation of an async handler
    received       \* number of events received so far

vars == <<now, profiles, ver, chatSessions, sessions, completions, connected,
          handlers, received>>

----------------------------------------------------------------------------
(* Bounds of the model. *)

MaxEvents    == 2   \* events received in one run
MaxChunks    == 2   \* fragments of one provider stream
MaxDay       == 3   \* last day the clock reaches
MaxStreak    == 2   \* largest streak in an initial row
MaxDaily     == 1   \* largest daily_conversations in an initial row
MaxFetchEvents == 2 \* events received in one run of SpecFetch
MaxTurnEvents  == 7 \* events received in one run of SpecTurns
MaxTurnChunks  == 1 \* fragments of one provider stream in SpecTurns
MaxEntryEvents == 2 \* events received in one run of SpecEntry
MaxRaceEvents  == 12 \* events received in one run of SpecRace
MaxLiveEvents  == 6 \* events received in one run of SpecLive
StartDay       == 2 \* the day the clock shows initially

(* Program constants. *)

QuotaLimit          == 3   \* user.daily_conversations >= 3
CompletionThreshold == 5   \* userMessageCount === 5

Sockets == {"s1", "s2"}
UserIds == {"u1", "u2"}
NoUserId == ""             \* a falsy userId
NoDate == -1               \* a null date column
Frags == {"a", "b"}        \* texts of stream chunks
Slots == {1, 2}             \* handler invocations in flight per socket
TurnFrags == {"a"}          \* texts of stream chunks in SpecTurns

Null == << >>              \* null / undefined; a value v is held as <<v>>

----------------------------------------------------------------------------
(* Dates: getToday() and the yesterdayStr of getUserData.  A day is the
   number of a UTC calendar day.  yesterdayStr is the UTC day of the instant
   one local calendar day before the clock reading of line 46: the day before
   getToday() when both readings of lines 45-46 fall on the same UTC day and
   the local day before has 24 hours (a process time zone without a clock
   change that day, UTC in particular), which is what is modelled. *)

getToday == now

yesterdayOf(day) == day - 1

----------------------------------------------------------------------------
(* Events emitted on a socket. *)

Ev(name, arg) == [ev |-> name, arg |-> arg]

IsEv(e, name, arg) == e.ev = name /\ e.arg = arg

EvNames(out) == [i \in 1..Len(out) |-> out[i].ev]

----------------------------------------------------------------------------
(* Handler invocations. *)

IdleHandler ==
    [kind |-> "none", pc |-> "idle", userId |-> NoUserId, today |-> NoDate,
     yesterdayStr |-> NoDate, user |-> Null, updates |-> Null,
     chat |-> 0, userMessageCount |-> 0, newCount |-> 0, writeDay |-> NoDate,
     stream |-> << >>, pos |-> 0, out |-> << >>,
     regBefore |-> 0, rver |-> 0, wver |-> 0]

Free(h) == h.pc \in {"idle", "done"}

\* the slot a newly received event runs in: the first one never used, else the
\* first one whose handler has returned
FreeSlot(c) ==
    LET first(S) == CHOOSE k \in S : \A j \in S : k <= j
        unused   == {k \in Slots : handlers[c][k].pc = "idle"}
        returned == {k \in Slots : handlers[c][k].pc = "done"}
    IN  IF unused # {} THEN first(unused) ELSE first(returned)

CanReceive(c) ==
    /\ connected[c]
    /\ \E k \in Slots : Free(handlers[c][k])

SetHandler(c, k, h) ==
    handlers' = [handlers EXCEPT ![c][k] = h]

Emit(h, e) == [h EXCEPT !.out = Append(@, e)]

Done(h) == [h EXCEPT !.pc = "done"]

----------------------------------------------------------------------------
(* The profiles table. *)

Select(row, cols) == [f \in cols |-> row[f]]

AllCols == {"streak", "last_login_date", "last_conversation_date",
            "daily_conversations", "is_premium"}

QuotaCols == {"daily_conversations", "is_premium"}

\* .update(updates).eq('id', userId): the row with the given columns replaced
ApplyUpdate(row, updates) ==
    [f \in DOMAIN row |-> IF f \in DOMAIN updates THEN updates[f] ELSE row[f]]

\* the result of .select(cols).eq('id', userId).single()
ReadRow(userId, cols, ok) ==
    IF ok /\ userId \in DOMAIN profiles
    THEN <<Select(profiles[userId], cols)>>
    ELSE Null

----------------------------------------------------------------------------
(* getUserData *)

\* lines 63-86: the updates object (needsUpdate is: it has a key)
StreakUpdatesNoYesterday(user, today, yesterdayStr) ==
    IF user.last_login_date # today
    THEN [f \in {"streak"} |-> 1]
    ELSE << >>

StreakUpdates(user, today, yesterdayStr) ==
    IF user.last_login_date = yesterdayStr
    THEN [f \in {"streak"} |-> user.streak + 1]
    ELSE IF user.last_login_date # today
         THEN [f \in {"streak"} |-> 1]
         ELSE << >>

LoginDateUpdatesNever(user, today) == << >>

LoginDateUpdates(user, today) ==
    IF user.last_login_date # today
    THEN [f \in {"last_login_date"} |-> today]
    ELSE << >>

DailyResetUpdatesKeepCount(user, today) ==
    IF user.last_conversation_date # today
    THEN [f \in {"last_conversation_date"} |-> today]
    ELSE << >>

DailyResetUpdates(user, today) ==
    IF user.last_conversation_date # today
    THEN [f \in {"daily_conversations", "last_conversation_date"} |->
             IF f = "daily_conversations" THEN 0 ELSE today]
    ELSE << >>

Merge(a, b) ==
    [f \in DOMAIN a \cup DOMAIN b |-> IF f \in DOMAIN b THEN b[f] ELSE a[f]]

ReconcileUpdates(user, today, yesterdayStr) ==
    Merge(Merge(StreakUpdates(user, today, yesterdayStr),
                LoginDateUpdates(user, today)),
          DailyResetUpdates(user, today))

NeedsUpdate(updates) == DOMAIN updates # {}

\* lines 39 and 113: if (!userId)
MissingUserIdNever(userId) == FALSE

MissingUserId(userId) == userId = NoUserId

\* lines 38-55: the event arrives; validation, the dates, the read is issued
GetUserData(c, userId) ==
    /\ CanReceive(c)
    /\ LET k == FreeSlot(c)
           h == [IdleHandler EXCEPT !.kind = "getUserData", !.userId = userId,
                                    !.regBefore = chatSessions[c]]
       IN  IF MissingUserId(userId)
           THEN SetHandler(c, k,
                    Done(Emit(h, Ev("userDataError", "Missing userId"))))
           ELSE SetHandler(c, k,
                    [h EXCEPT !.pc = "gRead", !.today = getToday,
                              !.yesterdayStr = yesterdayOf(getToday)])
    /\ received' = received + 1
    /\ UNCHANGED <<now, profiles, ver, chatSessions, sessions, completions,
                   connected>>

\* lines 51-86 and 107-108: the read returns
GetUserDataRead(c, k) ==
    /\ handlers[c][k].pc = "gRead"
    /\ \E ok \in BOOLEAN :
        LET h    == handlers[c][k]
            user == ReadRow(h.userId, AllCols, ok)
        IN  IF user = Null
            THEN SetHandler(c, k, Done(Emit(h,
                     Ev("userDataError", "Could not find user profile."))))
            ELSE LET updates == ReconcileUpdates(user[1], h.today, h.yesterdayStr)
                     h1 == [h EXCEPT !.user = user, !.updates = updates,
                                     !.rver = ver[h.userId]]
                 IN  IF NeedsUpdate(updates)
                     THEN SetHandler(c, k, [h1 EXCEPT !.pc = "gUpdate"])
                     ELSE SetHandler(c, k, Done(Emit(h1, Ev("userData", user[1]))))
    /\ UNCHANGED <<now, profiles, ver, chatSessions, sessions, completions,
                   connected, received>>

\* lines 97-101: the update failed; the profile as it was read is sent
UpdateFailedWithError(h) ==
    Done(Emit(h, Ev("userDataError", "Could not update user profile.")))

UpdateFailed(h) ==
    Done(Emit(h, Ev("userData", h.user[1])))

\* lines 89-105: the update returns
GetUserDataUpdate(c, k) ==
    /\ handlers[c][k].pc = "gUpdate"
    /\ LET h == handlers[c][k]
       IN  \/ \* updateError
              /\ SetHandler(c, k, UpdateFailed(h))
              /\ UNCHANGED <<profiles, ver>>
           \/ /\ h.userId \in DOMAIN profiles
              /\ LET updatedUser == ApplyUpdate(profiles[h.userId], h.updates)
                 IN  /\ profiles' = [profiles EXCEPT ![h.userId] = updatedUser]
                     /\ ver' = [ver EXCEPT ![h.userId] = @ + 1]
                     /\ SetHandler(c, k,
                            Done(Emit([h EXCEPT !.wver = ver[h.userId] + 1],
                                      Ev("userData", updatedUser))))
    /\ UNCHANGED <<now, chatSessions, sessions, completions, connected, received>>

----------------------------------------------------------------------------
(* startConversation *)

\* line 129
QuotaDeniedIgnoringPremium(user) ==
    user.daily_conversations >= QuotaLimit

QuotaDenied(user) ==
    user.daily_conversations >= QuotaLimit /\ ~user.is_premium

\* line 162: the session object put into the map
NewSessionAtOne(userId) == [userMessageCount |-> 1, userId |-> userId]

NewSession(userId) == [userMessageCount |-> 0, userId |-> userId]

\* lines 112-122: the event arrives; validation, the read is issued
StartConversation(c, userId) ==
    /\ CanReceive(c)
    /\ LET k == FreeSlot(c)
           h == [IdleHandler EXCEPT !.kind = "startConversation",
                                    !.userId = userId,
                                    !.regBefore = chatSessions[c]]
       IN  IF MissingUserId(userId)
           THEN SetHandler(c, k, Done(Emit(h, Ev("error", "Missing userId."))))
           ELSE SetHandler(c, k, [h EXCEPT !.pc = "sRead"])
    /\ received' = received + 1
    /\ UNCHANGED <<now, profiles, ver, chatSessions, sessions, completions,
                   connected>>

\* lines 118-164: the read returns; the quota check; the chat is created
\* (getGenerativeModel and startChat build local objects), the session is put
\* into the map and the opening message is sent to the provider
StartConversationRead(c, k) ==
    /\ handlers[c][k].pc = "sRead"
    /\ \E ok \in BOOLEAN :
        LET h    == handlers[c][k]
            user == ReadRow(h.userId, QuotaCols, ok)
            h1   == [h EXCEPT !.user = user, !.rver = ver[h.userId]]
            sid  == Len(sessions) + 1
        IN  IF user = Null
            THEN /\ SetHandler(c, k, Done(Emit(h1, Ev("error", "User not found."))))
                 /\ UNCHANGED <<chatSessions, sessions, completions>>
            ELSE IF QuotaDenied(user[1])
            THEN /\ SetHandler(c, k, Done(Emit(h1, Ev("limitReached", ""))))
                 /\ UNCHANGED <<chatSessions, sessions, completions>>
            ELSE /\ sessions' = Append(sessions, NewSession(h.userId))
                 /\ completions' = Append(completions, 0)
                 /\ chatSessions' = [chatSessions EXCEPT ![c] = sid]
                 /\ SetHandler(c, k, [h1 EXCEPT !.pc = "sOpen", !.chat = sid])
    /\ UNCHANGED <<now, profiles, ver, connected, received>>

\* lines 164-169: chat.sendMessage("START_CONVERSATION") returns or throws
StartConversationOpen(c, k) ==
    /\ handlers[c][k].pc = "sOpen"
    /\ LET h == handlers[c][k]
       IN  \/ SetHandler(c, k, Done(Emit(h, Ev("aiMessage", "opening"))))
           \/ SetHandler(c, k,
                  Done(Emit(h, Ev("error", "Failed to start conversation."))))
    /\ UNCHANGED <<now, profiles, ver, chatSessions, sessions, completions,
                   connected, received>>

----------------------------------------------------------------------------
(* sendMessage *)

StreamsUpTo(n, texts) == UNION {[1..m -> texts] : m \in 0..n}

\* line 184
IsCompletionTurnAtLeast(userMessageCount) ==
    userMessageCount >= CompletionThreshold

IsCompletionTurn(userMessageCount) ==
    userMessageCount = CompletionThreshold

\* line 191
CountsCompletion(user) == user # Null /\ ~user[1].is_premium

\* line 192
NewCountUnchanged(user) == user.daily_conversations

NewCount(user) == user.daily_conversations + 1

\* lines 195-198
CompletionUpdate(newCount, day) ==
    [f \in {"daily_conversations", "last_conversation_date"} |->
        IF f = "daily_conversations" THEN newCount ELSE day]

\* lines 173-189, 207: the event arrives; the session is looked up and its
\* counter raised; the read of turn 5 is issued, or the stream is requested
SendMessageNoSessionCreates(c, k, h) ==
    /\ SetHandler(c, k, Done(Emit(h, Ev("error", "Chat session not found."))))
    /\ sessions' = Append(sessions, NewSession(NoUserId))
    /\ completions' = Append(completions, 0)
    /\ chatSessions' = [chatSessions EXCEPT ![c] = Len(sessions) + 1]

SendMessageNoSession(c, k, h) ==
    /\ SetHandler(c, k, Done(Emit(h, Ev("error", "Chat session not found."))))
    /\ UNCHANGED <<sessions, completions, chatSessions>>

SendMessage(c) ==
    /\ CanReceive(c)
    /\ LET k   == FreeSlot(c)
           sid == chatSessions[c]
           h   == [IdleHandler EXCEPT !.kind = "sendMessage", !.regBefore = sid]
       IN  IF sid = 0
           THEN SendMessageNoSession(c, k, h)
           ELSE LET count == sessions[sid].userMessageCount + 1
                    h1 == [h EXCEPT !.chat = sid, !.userMessageCount = count,
                                    !.userId = sessions[sid].userId]
                IN  /\ sessions' = [sessions EXCEPT ![sid].userMessageCount = count]
                    /\ SetHandler(c, k,
                           [h1 EXCEPT !.pc = IF IsCompletionTurn(count)
                                             THEN "mRead" ELSE "mStream"])
                    /\ UNCHANGED <<completions, chatSessions>>
    /\ received' = received + 1
    /\ UNCHANGED <<now, profiles, ver, connected>>

\* lines 185-199: the read of turn 5 returns
SendMessageRead(c, k) ==
    /\ handlers[c][k].pc = "mRead"
    /\ \E ok \in BOOLEAN :
        LET h    == handlers[c][k]
            user == ReadRow(h.userId, QuotaCols, ok)
            h1   == [h EXCEPT !.user = user, !.rver = ver[h.userId]]
        IN  IF CountsCompletion(user)
            THEN SetHandler(c, k, [h1 EXCEPT !.pc = "mUpdate",
                                             !.newCount = NewCount(user[1]),
                                             !.writeDay = getToday])
            ELSE SetHandler(c, k, [h1 EXCEPT !.pc = "mStream"])
    /\ UNCHANGED <<now, profiles, ver, chatSessions, sessions, completions,
                   connected, received>>

\* lines 200-202
AnnounceCompletionAfterReply(h) == h

AnnounceCompletion(h) ==
    Emit(h, Ev("conversationCompleted", [daily_conversations |-> h.newCount]))

\* lines 193-207: the update returns (its error is not looked at), the
\* completion is announced and the stream is requested
SendMessageUpdate(c, k) ==
    /\ handlers[c][k].pc = "mUpdate"
    /\ LET h  == handlers[c][k]
           h1 == AnnounceCompletion(h)
       IN  /\ \/ /\ h.userId \in DOMAIN profiles
                 /\ profiles' = [profiles EXCEPT ![h.userId] =
                        ApplyUpdate(@, CompletionUpdate(h.newCount, h.writeDay))]
                 /\ ver' = [ver EXCEPT ![h.userId] = @ + 1]
                 /\ SetHandler(c, k, [h1 EXCEPT !.pc = "mStream",
                                                !.wver = ver[h.userId] + 1])
              \/ /\ UNCHANGED <<profiles, ver>>
                 /\ SetHandler(c, k, [h1 EXCEPT !.pc = "mStream"])
           /\ completions' = [completions EXCEPT ![h.chat] = @ + 1]
    /\ UNCHANGED <<now, chatSessions, sessions, connected, received>>

\* lines 207, 212-214: chat.sendMessageStream(message) returns the stream or throws
SendMessageStream(c, k, provided) ==
    /\ handlers[c][k].pc = "mStream"
    /\ LET h == handlers[c][k]
       IN  \/ \E stream \in provided :
                  SetHandler(c, k, [h EXCEPT !.pc = "mChunks", !.stream = stream])
           \/ SetHandler(c, k,
                  Done(Emit(h, Ev("error", "Failed to get AI response."))))
    /\ UNCHANGED <<now, profiles, ver, chatSessions, sessions, completions,
                   connected, received>>

\* lines 208-214: one turn of the for-await loop: the next chunk, the end of
\* the stream, or a failure of the stream
RelayChunkSkipping(h) ==
    [h EXCEPT !.pos = @ + 1]

RelayChunk(h) ==
    [Emit(h, Ev("aiMessageChunk", h.stream[h.pos + 1])) EXCEPT !.pos = @ + 1]

RelayEndSilent(h) ==
    Done(h)

RelayEnd(h) ==
    Done(Emit(h, Ev("aiMessageEnd", "")))

RelayFailedWithEnd(h) ==
    Done(Emit(Emit(h, Ev("error", "Failed to get AI response.")),
              Ev("aiMessageEnd", "")))

RelayFailed(h) ==
    Done(Emit(h, Ev("error", "Failed to get AI response.")))

SendMessageChunk(c, k) ==
    /\ handlers[c][k].pc = "mChunks"
    /\ LET h == handlers[c][k]
       IN  \/ /\ h.pos < Len(h.stream)
              /\ SetHandler(c, k, RelayChunk(h))
           \/ /\ h.pos = Len(h.stream)
              /\ SetHandler(c, k, RelayEnd(h))
           \/ SetHandler(c, k, RelayFailed(h))
    /\ UNCHANGED <<now, profiles, ver, chatSessions, sessions, completions,
                   connected, received>>

----------------------------------------------------------------------------
(* disconnect, lines 218-221 *)

Disconnect(c) ==
    /\ connected[c]
    /\ connected' = [connected EXCEPT ![c] = FALSE]
    /\ chatSessions' = [chatSessions EXCEPT ![c] = 0]
    /\ UNCHANGED <<now, profiles, ver, sessions, completions, handlers, received>>

(* The server clock passes midnight (UTC). *)
Midnight ==
    /\ now < MaxDay
    /\ now' = now + 1
    /\ UNCHANGED <<profiles, ver, chatSessions, sessions, completions, connected,
                   handlers, received>>

----------------------------------------------------------------------------
(* Initial states. *)

Dates == {NoDate} \cup ((StartDay - 2)..StartDay)

Rows == [streak : 0..MaxStreak, last_login_date : Dates,
         last_conversation_date : Dates, daily_conversations : 0..MaxDaily,
         is_premium : BOOLEAN]

InitCommon ==
    /\ now = StartDay
    /\ ver = [u \in UserIds |-> 0]
    /\ chatSessions = [c \in Sockets |-> 0]
    /\ sessions = << >>
    /\ completions = << >>
    /\ connected = [c \in Sockets |-> TRUE]
    /\ handlers = [c \in Sockets |-> [k \in Slots |-> IdleHandler]]
    /\ received = 0

(* The profile reconciliation alone, from every row of the table. *)
InitFetch ==
    /\ InitCommon
    /\ \E row \in Rows : profiles = [u \in {"u1"} |-> row]

NextFetch ==
    \/ \E u \in {NoUserId} \cup UserIds :
           received < MaxFetchEvents /\ GetUserData("s1", u)
    \/ \E k \in Slots : GetUserDataRead("s1", k)
    \/ \E k \in Slots : GetUserDataUpdate("s1", k)
    \/ Midnight

SpecFetch == InitFetch /\ [][NextFetch]_vars

(* Conversations on two sockets against one stored profile.  MaxEvents stays
   below the five messages of a completion, whose steps are in NextTurns. *)
InitRows == [streak : {1}, last_login_date : {StartDay},
             last_conversation_date : {StartDay - 1, StartDay},
             daily_conversations : {QuotaLimit - 1, QuotaLimit},
             is_premium : BOOLEAN]

Init ==
    /\ InitCommon
    /\ \E row \in InitRows : profiles = [u \in {"u1"} |-> row]

Next ==
    \/ \E c \in Sockets, u \in {NoUserId} \cup UserIds :
           received < MaxEvents /\ StartConversation(c, u)
    \/ \E c \in Sockets, k \in Slots : StartConversationRead(c, k)
    \/ \E c \in Sockets, k \in Slots : StartConversationOpen(c, k)
    \/ \E c \in Sockets : received < MaxEvents /\ SendMessage(c)
    \/ \E c \in Sockets, k \in Slots :
           SendMessageStream(c, k, StreamsUpTo(MaxChunks, Frags))
    \/ \E c \in Sockets, k \in Slots : SendMessageChunk(c, k)
    \/ \E c \in Sockets : Disconnect(c)

Spec == Init /\ [][Next]_vars

(* The two events that name a user, on two sockets: "u2" has no row. *)
NextEntry ==
    \/ \E c \in Sockets, u \in {NoUserId} \cup UserIds :
           received < MaxEntryEvents /\ GetUserData(c, u)
    \/ \E c \in Sockets, k \in Slots : GetUserDataRead(c, k)
    \/ \E c \in Sockets, k \in Slots : GetUserDataUpdate(c, k)
    \/ \E c \in Sockets, u \in {NoUserId} \cup UserIds :
           received < MaxEntryEvents /\ StartConversation(c, u)
    \/ \E c \in Sockets, k \in Slots : StartConversationRead(c, k)
    \/ \E c \in Sockets, k \in Slots : StartConversationOpen(c, k)

SpecEntry == Init /\ [][NextEntry]_vars

(* One socket through the turns of its conversations. *)
NextTurns ==
    \/ received < MaxTurnEvents /\ StartConversation("s1", "u1")
    \/ \E k \in Slots : StartConversationRead("s1", k)
    \/ \E k \in Slots : StartConversationOpen("s1", k)
    \/ received < MaxTurnEvents /\ SendMessage("s1")
    \/ \E k \in Slots : SendMessageRead("s1", k)
    \/ \E k \in Slots : SendMessageUpdate("s1", k)
    \/ \E k \in Slots : SendMessageStream("s1", k, StreamsUpTo(MaxTurnChunks, TurnFrags))
    \/ \E k \in Slots : SendMessageChunk("s1", k)

TurnRows == [streak : {1}, last_login_date : {StartDay},
             last_conversation_date : {StartDay - 1, StartDay},
             daily_conversations : {QuotaLimit - 1},
             is_premium : BOOLEAN]

InitTurns ==
    /\ InitCommon
    /\ \E row \in TurnRows : profiles = [u \in {"u1"} |-> row]

SpecTurns == InitTurns /\ [][NextTurns]_vars

(* Two sockets of the same non-premium user, each holding one conversation
   of five messages; a client sends its next event when the previous one has
   been answered. *)
Quiet(c) == \A k \in Slots : Free(handlers[c][k])

Unused(c) == \A k \in Slots : handlers[c][k].pc = "idle"

MoreToSay(c) ==
    /\ chatSessions[c] # 0
    /\ sessions[chatSessions[c]].userMessageCount < CompletionThreshold

NextRace ==
    \/ \E c \in Sockets :
           /\ received < MaxRaceEvents /\ Unused(c)
           /\ StartConversation(c, "u1")
    \/ \E c \in Sockets, k \in Slots : StartConversationRead(c, k)
    \/ \E c \in Sockets, k \in Slots : StartConversationOpen(c, k)
    \/ \E c \in Sockets :
           /\ received < MaxRaceEvents /\ Quiet(c) /\ MoreToSay(c)
           /\ SendMessage(c)
    \/ \E c \in Sockets, k \in Slots : SendMessageRead(c, k)
    \/ \E c \in Sockets, k \in Slots : SendMessageUpdate(c, k)
    \/ \E c \in Sockets, k \in Slots :
           SendMessageStream(c, k, StreamsUpTo(MaxTurnChunks, TurnFrags))
    \/ \E c \in Sockets, k \in Slots : SendMessageChunk(c, k)

RaceRows == [streak : {1}, last_login_date : {StartDay},
             last_conversation_date : {StartDay},
             daily_conversations : {MaxDaily},
             is_premium : {FALSE}]

InitRace ==
    /\ InitCommon
    /\ \E row \in RaceRows : profiles = [u \in {"u1"} |-> row]

SpecRace == InitRace /\ [][NextRace]_vars

(* One socket whose client sends its next event when the previous one has
   been answered.  Every call to the table returns and every provider
   stream ends, and the event loop runs each continuation that is ready:
   weak fairness of every step of a sendMessage handler. *)
NextLive ==
    \/ /\ received < MaxLiveEvents /\ Quiet("s1")
       /\ StartConversation("s1", "u1")
    \/ \E k \in Slots : StartConversationRead("s1", k)
    \/ \E k \in Slots : StartConversationOpen("s1", k)
    \/ /\ received < MaxLiveEvents /\ Quiet("s1")
       /\ SendMessage("s1")
    \/ \E k \in Slots : SendMessageRead("s1", k)
    \/ \E k \in Slots : SendMessageUpdate("s1", k)
    \/ \E k \in Slots :
           SendMessageStream("s1", k, StreamsUpTo(MaxTurnChunks, TurnFrags))
    \/ \E k \in Slots : SendMessageChunk("s1", k)

FairHandlers ==
    \A k \in Slots :
        /\ WF_vars(SendMessageRead("s1", k))
        /\ WF_vars(SendMessageUpdate("s1", k))
        /\ WF_vars(SendMessageStream("s1", k, StreamsUpTo(MaxTurnChunks, TurnFrags)))
        /\ WF_vars(SendMessageChunk("s1", k))

SpecLive == InitTurns /\ [][NextLive]_vars /\ FairHandlers

----------------------------------------------------------------------------
(* Vocabulary of the properties. *)

AllHandlers == {<<c, k>> : c \in Sockets, k \in Slots}

H(ck) == handlers[ck[1]][ck[2]]

Emitted(h, name) == \E i \in 1..Len(h.out) : h.out[i].ev = name

CountOf(h, name) == Cardinality({i \in 1..Len(h.out) : h.out[i].ev = name})

IsName(e, name) == e.ev = name

IsChunk(e) == e.ev = "aiMessageChunk"

NotCompleted(e) == e.ev # "conversationCompleted"

\* the texts of the chunks a handler has emitted, in order
ChunkTexts(h) ==
    LET chunks == SelectSeq(h.out, IsChunk)
    IN  [i \in 1..Len(chunks) |-> chunks[i].arg]

LastEv(h) == h.out[Len(h.out)].ev

FailedReply(h) ==
    /\ h.kind = "sendMessage" /\ h.pc = "done" /\ h.chat # 0
    /\ Emitted(h, "error")

----------------------------------------------------------------------------
Turn5InFlight(sid) ==
    \E ck \in AllHandlers :
        /\ H(ck).kind = "sendMessage" /\ H(ck).chat = sid
        /\ H(ck).userMessageCount = CompletionThreshold
        /\ H(ck).pc \in {"mRead", "mUpdate"}

OnlyOnTurn5 ==
    \A ck \in AllHandlers :
        (H(ck).pc \in {"mRead", "mUpdate"} \/ Emitted(H(ck), "conversationCompleted"))
            => /\ H(ck).kind = "sendMessage"
               /\ H(ck).userMessageCount = CompletionThreshold

(* C1 as stated: a session of a non-premium user whose turn count has
   reached 5, and whose fifth message has been handled, has run the
   completion block exactly once; the block runs only in the handler of the
   message that made the count 5. *)
C1_ExactlyOncePerSession ==
    /\ OnlyOnTurn5
    /\ \A sid \in DOMAIN sessions :
          /\ completions[sid] <= 1
          /\ (/\ ~profiles[sessions[sid].userId].is_premium
              /\ sessions[sid].userMessageCount >= CompletionThreshold
              /\ ~Turn5InFlight(sid))
                 => completions[sid] = 1

(* C1 as amended: the completion block runs at most once per session and
   only in the handler of the message that made the count exactly 5 (never
   for turns 1-4, 6 or later); it has run exactly once as soon as that
   handler's profile read returned a non-premium profile and its update
   returned; when that read fails the session records no completion. *)
C1_AtMostOnceOnTurn5 ==
    /\ OnlyOnTurn5
    /\ \A sid \in DOMAIN sessions :
          /\ completions[sid] <= 1
          /\ completions[sid] = 1
                => sessions[sid].userMessageCount >= CompletionThreshold
    /\ \A ck \in AllHandlers :
          (/\ H(ck).kind = "sendMessage"
           /\ H(ck).userMessageCount = CompletionThreshold
           /\ H(ck).pc \in {"mStream", "mChunks", "done"})
             => /\ CountOf(H(ck), "conversationCompleted")
                     = (IF CountsCompletion(H(ck).user) THEN 1 ELSE 0)
                /\ CountsCompletion(H(ck).user) => completions[H(ck).chat] >= 1

C1_Witness ==
    \E sid \in DOMAIN sessions, k \in Slots :
        /\ completions[sid] = 1
        /\ sessions[sid].userMessageCount = CompletionThreshold + 1
        /\ handlers["s1"][k].chat = sid
        /\ handlers["s1"][k].userMessageCount = CompletionThreshold + 1
        /\ handlers["s1"][k].pc = "done"
        /\ LastEv(handlers["s1"][k]) = "aiMessageEnd"

----------------------------------------------------------------------------
(* C2: a sendMessage handler forwards the fragments of its stream one
   emission each, in the order received: at any moment the chunks emitted
   are exactly the fragments received so far; aiMessageEnd is emitted at
   most once, as the last event, only after every fragment of the stream
   was emitted; and a reply that ends without error has emitted it. *)
C2_RelayInOrderThenEnd ==
    \A ck \in AllHandlers :
        LET h == H(ck)
        IN  (h.kind = "sendMessage" /\ h.chat # 0) =>
              /\ ChunkTexts(h) = SubSeq(h.stream, 1, h.pos)
              /\ CountOf(h, "aiMessageEnd") <= 1
              /\ Emitted(h, "aiMessageEnd") =>
                    /\ h.pc = "done"
                    /\ LastEv(h) = "aiMessageEnd"
                    /\ ChunkTexts(h) = h.stream
                    /\ SelectSeq(h.out, NotCompleted)
                         = [i \in 1..Len(h.stream) |->
                               Ev("aiMessageChunk", h.stream[i])]
                           \o <<Ev("aiMessageEnd", "")>>
              /\ (h.pc = "done" /\ ~Emitted(h, "error"))
                    => Emitted(h, "aiMessageEnd")

C2_Witness ==
    \E ck \in AllHandlers :
        /\ H(ck).pc = "done"
        /\ H(ck).stream = <<"a", "b">>
        /\ EvNames(H(ck).out) = <<"aiMessageChunk", "aiMessageChunk", "aiMessageEnd">>

----------------------------------------------------------------------------
(* C3: a reply whose stream failed, when it was opened or after some
   fragments, ends with one conversation error and no aiMessageEnd, and
   the chunks emitted for it are the fragments received before the failure. *)
C3_FailedStreamNoEnd ==
    \A ck \in AllHandlers :
        LET h == H(ck)
        IN  FailedReply(h) =>
              /\ ~Emitted(h, "aiMessageEnd")
              /\ CountOf(h, "error") = 1
              /\ IsEv(h.out[Len(h.out)], "error", "Failed to get AI response.")
              /\ ChunkTexts(h) = SubSeq(h.stream, 1, h.pos)

C3_Witness ==
    \E ck \in AllHandlers :
        /\ FailedReply(H(ck))
        /\ Len(H(ck).stream) = 2
        /\ EvNames(H(ck).out) = <<"aiMessageChunk", "error">>

----------------------------------------------------------------------------
ReadReturns(c, k, label) ==
    handlers[c][k].pc = label /\ handlers'[c][k].pc # label

(* C4: when the profile read of a startConversation returns a profile, the
   handler answers limitReached exactly when that profile is not premium
   and has daily_conversations >= 3; the denied handler emits limitReached
   alone and ends without touching chatSessions, the session objects or
   the table, and without calling the provider; otherwise (in particular
   for every premium profile) it goes on to open the conversation. *)
C4_DeniedIffOverQuota ==
    [][\A c \in Sockets, k \in Slots :
          (ReadReturns(c, k, "sRead") /\ handlers'[c][k].user # Null) =>
             LET h      == handlers'[c][k]
                 user   == h.user[1]
                 denied == Emitted(h, "limitReached")
             IN  /\ denied <=> (~user.is_premium
                                /\ user.daily_conversations >= QuotaLimit)
                 /\ user.is_premium => ~denied
                 /\ denied => /\ h.pc = "done"
                              /\ EvNames(h.out) = <<"limitReached">>
                              /\ h.chat = 0
                              /\ UNCHANGED <<chatSessions, sessions, profiles, ver>>
                 /\ ~denied => /\ h.pc = "sOpen"
                               /\ chatSessions'[c] = h.chat
                               /\ h.chat \notin DOMAIN sessions
                               /\ h.chat \in DOMAIN sessions'
    ]_vars

C4_Witness ==
    \E ck \in AllHandlers :
        /\ H(ck).kind = "startConversation" /\ H(ck).pc = "done"
        /\ H(ck).user # Null
        /\ ~H(ck).user[1].is_premium
        /\ H(ck).user[1].daily_conversations = QuotaLimit
        /\ EvNames(H(ck).out) = <<"limitReached">>
        /\ chatSessions[ck[1]] = 0

----------------------------------------------------------------------------
Stale(userId) ==
    /\ userId \in DOMAIN profiles
    /\ profiles[userId].last_conversation_date # getToday

(* C5 as stated: a stored daily_conversations whose last_conversation_date
   is not today counts as zero: a startConversation reading such a row of a
   non-premium user never answers limitReached, and a completion recorded
   on such a row stores daily_conversations = 1 with
   last_conversation_date = today. *)
C5_StaleCountIsZero ==
    [][\A c \in Sockets, k \in Slots :
          /\ (/\ ReadReturns(c, k, "sRead")
              /\ handlers'[c][k].user # Null
              /\ ~handlers'[c][k].user[1].is_premium
              /\ Stale(handlers[c][k].userId))
                => ~Emitted(handlers'[c][k], "limitReached")
          /\ (/\ ReadReturns(c, k, "mRead")
              /\ handlers'[c][k].pc = "mUpdate"
              /\ Stale(handlers[c][k].userId))
                => handlers'[c][k].newCount = 1
          /\ (/\ ReadReturns(c, k, "mUpdate")
              /\ handlers'[c][k].wver # 0
              /\ Stale(handlers[c][k].userId))
                => /\ profiles'[handlers[c][k].userId].daily_conversations = 1
                   /\ profiles'[handlers[c][k].userId].last_conversation_date
                        = getToday
    ]_vars

----------------------------------------------------------------------------
Receives(c, k, kind) ==
    /\ received' = received + 1
    /\ handlers'[c][k] # handlers[c][k]
    /\ handlers'[c][k].kind = kind

(* C6: a sendMessage received on a socket that has no entry in
   chatSessions ends at once with the single event error 'Chat session not
   found.': chatSessions, the session objects and the table are unchanged,
   no read, update or provider call is left pending, and the socket stays
   connected. *)
C6_NoSessionErrorOnly ==
    [][\A c \in Sockets, k \in Slots :
          (Receives(c, k, "sendMessage") /\ chatSessions[c] = 0) =>
              /\ handlers'[c][k].pc = "done"
              /\ Len(handlers'[c][k].out) = 1
              /\ IsEv(handlers'[c][k].out[1], "error", "Chat session not found.")
              /\ UNCHANGED <<chatSessions, sessions, completions, profiles, ver,
                             connected>>
              /\ connected'[c]
    ]_vars

C6_Witness ==
    \E c \in Sockets :
        /\ handlers[c][1].kind = "sendMessage"
        /\ handlers[c][1].pc = "done"
        /\ handlers[c][1].chat = 0
        /\ EvNames(handlers[c][1].out) = <<"error">>
        /\ handlers[c][2].kind = "startConversation"
        /\ handlers[c][2].pc = "done"
        /\ EvNames(handlers[c][2].out) = <<"aiMessage">>
        /\ chatSessions[c] = handlers[c][2].chat
        /\ chatSessions[c] # 0

----------------------------------------------------------------------------
FetchedProfile(h) == h.kind = "getUserData" /\ h.user # Null

(* C7: for the profile a getUserData read, with yesterday the day before
   the handler's today: last_login_date = yesterday gives the update
   streak = old streak + 1; last_login_date null or any day other than
   today and yesterday gives streak = 1; last_login_date = today gives an
   update with neither streak nor last_login_date; last_login_date is in
   the update, as today, exactly when it was not today; and the row the
   update returns carries the update's values. *)
C7_StreakRules ==
    \A ck \in AllHandlers :
        LET h == H(ck)
        IN  FetchedProfile(h) =>
              LET last      == h.user[1].last_login_date
                  yesterday == h.today - 1
                  keys      == DOMAIN h.updates
              IN  /\ last = yesterday =>
                        /\ "streak" \in keys
                        /\ h.updates.streak = h.user[1].streak + 1
                  /\ last \notin {h.today, yesterday} =>
                        /\ "streak" \in keys
                        /\ h.updates.streak = 1
                  /\ last = h.today =>
                        /\ "streak" \notin keys
                        /\ "last_login_date" \notin keys
                  /\ "last_login_date" \in keys <=> last # h.today
                  /\ "last_login_date" \in keys =>
                        h.updates.last_login_date = h.today
                  /\ h.wver # 0 =>
                        /\ Len(h.out) = 1
                        /\ h.out[1].ev = "userData"
                        /\ \A f \in keys \cap {"streak", "last_login_date"} :
                              h.out[1].arg[f] = h.updates[f]

C7_Witness ==
    \E ck \in AllHandlers :
        /\ FetchedProfile(H(ck))
        /\ H(ck).pc = "done" /\ H(ck).wver # 0
        /\ H(ck).user[1].last_login_date = H(ck).today - 1
        /\ H(ck).user[1].streak = 2
        /\ H(ck).out[1].arg.streak = 3

----------------------------------------------------------------------------
(* C8: whatever the streak branch, the update a getUserData computes has
   daily_conversations = 0 and last_conversation_date = today when the
   profile read has last_conversation_date # today, and has neither column
   when it is today; the update written changes exactly the columns it
   names, so the count of a profile whose conversation day is today stays
   as stored. *)
C8_DailyReset ==
    [][\A c \in Sockets, k \in Slots :
          /\ (ReadReturns(c, k, "gRead") /\ handlers'[c][k].user # Null) =>
                LET h    == handlers'[c][k]
                    keys == DOMAIN h.updates
                IN  IF h.user[1].last_conversation_date # h.today
                    THEN /\ {"daily_conversations", "last_conversation_date"}
                               \subseteq keys
                         /\ h.updates.daily_conversations = 0
                         /\ h.updates.last_conversation_date = h.today
                    ELSE /\ "daily_conversations" \notin keys
                         /\ "last_conversation_date" \notin keys
          /\ (ReadReturns(c, k, "gUpdate") /\ handlers'[c][k].wver # 0) =>
                LET h == handlers[c][k]
                IN  /\ \A f \in AllCols :
                          profiles'[h.userId][f] =
                              IF f \in DOMAIN h.updates THEN h.updates[f]
                              ELSE profiles[h.userId][f]
                    /\ handlers'[c][k].out = <<Ev("userData", profiles'[h.userId])>>
    ]_vars

C8_Witness ==
    \E ck \in AllHandlers :
        /\ FetchedProfile(H(ck))
        /\ H(ck).pc = "done" /\ H(ck).wver # 0
        /\ H(ck).user[1] = [streak |-> 2, last_login_date |-> H(ck).today - 1,
                            last_conversation_date |-> H(ck).today,
                            daily_conversations |-> 1, is_premium |-> FALSE]
        /\ H(ck).out = <<Ev("userData",
                            [streak |-> 3, last_login_date |-> H(ck).today,
                             last_conversation_date |-> H(ck).today,
                             daily_conversations |-> 1, is_premium |-> FALSE])>>

----------------------------------------------------------------------------
AppliedUpdate(h) ==
    /\ FetchedProfile(h) /\ h.pc = "done"
    /\ h.wver # 0 /\ h.wver = h.rver + 1

(* C9: after a getUserData whose update was applied to the row it had read,
   a getUserData of the same user with the same today that reads that row
   before any other write computes an empty update, ends without writing,
   and emits the row as stored: every column, the streak included, is the
   one the first call returned. *)
C9_SecondFetchSameDayNoChange ==
    \A ck1 \in AllHandlers, ck2 \in AllHandlers :
        LET h1 == H(ck1)
            h2 == H(ck2)
        IN  (/\ ck1 # ck2
             /\ AppliedUpdate(h1)
             /\ FetchedProfile(h2)
             /\ h2.userId = h1.userId
             /\ h2.today = h1.today
             /\ h2.rver = h1.wver)
              => /\ h2.updates = << >>
                 /\ h2.pc = "done"
                 /\ h2.wver = 0
                 /\ h2.out = <<Ev("userData", h2.user[1])>>
                 /\ h2.user[1] = h1.out[1].arg
                 /\ ver[h2.userId] = h1.wver => profiles[h2.userId] = h2.user[1]

C9_Witness ==
    \E ck1 \in AllHandlers, ck2 \in AllHandlers :
        /\ ck1 # ck2
        /\ AppliedUpdate(H(ck1))
        /\ H(ck1).user[1].last_login_date = H(ck1).today - 1
        /\ FetchedProfile(H(ck2))
        /\ H(ck2).userId = H(ck1).userId
        /\ H(ck2).today = H(ck1).today
        /\ H(ck2).rver = H(ck1).wver
        /\ H(ck2).pc = "done"
        /\ H(ck2).out[1].arg.streak = H(ck1).user[1].streak + 1

----------------------------------------------------------------------------
FailedStart(h) ==
    /\ h.kind = "startConversation" /\ h.pc = "done"
    /\ Len(h.out) = 1
    /\ IsEv(h.out[1], "error", "Failed to start conversation.")

(* C10 as stated: a startConversation that ended with 'Failed to start
   conversation.' leaves the socket's entry in chatSessions as it was when
   the event arrived (no other handler having replaced it since). *)
C10_FailedStartKeepsRegistry ==
    \A ck \in AllHandlers :
        (/\ FailedStart(H(ck))
         /\ connected[ck[1]]
         /\ chatSessions[ck[1]] \in {H(ck).regBefore, H(ck).chat})
           => chatSessions[ck[1]] = H(ck).regBefore

----------------------------------------------------------------------------
StartInFlight(c) ==
    \E j \in Slots :
        /\ handlers[c][j].kind = "startConversation"
        /\ handlers[c][j].pc \in {"sRead", "sOpen"}

(* C11 as stated: the events of one socket are handled one after the other:
   a sendMessage received while a startConversation of the same socket is
   waiting on the table or the provider does nothing until that handler has
   returned: on arrival it is not answered 'Chat session not found.' and it
   raises the counter of no session. *)
C11_SendWaitsForStart ==
    [][\A c \in Sockets :
          \A k \in Slots :
              (Receives(c, k, "sendMessage") /\ StartInFlight(c)) =>
                  /\ handlers'[c][k].out = << >>
                  /\ sessions' = sessions
    ]_vars

----------------------------------------------------------------------------
(* C16 as stated: a socket that has disconnected has no entry in
   chatSessions, in every later state. *)
C16_NoEntryAfterDisconnect ==
    \A c \in Sockets : ~connected[c] => chatSessions[c] = 0

----------------------------------------------------------------------------
(* C19 as stated: once a socket has disconnected, its handlers still in
   flight call socket.emit no more: no aiMessageChunk, aiMessageEnd,
   aiMessage, conversationCompleted or error is emitted after the
   disconnect. *)
C19_NoEmitAfterDisconnect ==
    [][\A c \in Sockets, k \in Slots :
          ~connected[c] => handlers'[c][k].out = handlers[c][k].out
    ]_vars

----------------------------------------------------------------------------
Turn5(h) ==
    /\ h.kind = "sendMessage" /\ h.chat # 0
    /\ h.userMessageCount = CompletionThreshold

\* the positions in a handler's output of the events of the reply
ReplyPositions(h) ==
    {i \in 1..Len(h.out) : h.out[i].ev \in {"aiMessageChunk", "aiMessageEnd"}}

CompletedPositions(h) ==
    {i \in 1..Len(h.out) : h.out[i].ev = "conversationCompleted"}

(* C12 as stated: in the handler of a fifth message, conversationCompleted
   comes after every aiMessageChunk and after aiMessageEnd of that message:
   it is never emitted while the reply has not ended, and never stands before
   an event of the reply. *)
C12_CompletedAfterReply ==
    \A ck \in AllHandlers :
        LET h == H(ck)
        IN  Turn5(h) =>
              \A i \in CompletedPositions(h) :
                  /\ Emitted(h, "aiMessageEnd")
                  /\ \A j \in ReplyPositions(h) : j < i

(* C12 as amended: the handler of a fifth message that read a non-premium
   profile emits conversationCompleted as soon as its update has returned
   and before it asks the provider for the reply: from then on it is the
   first event of that handler's output, it occurs once, and every
   aiMessageChunk, the aiMessageEnd and any conversation error of that
   message come after it. *)
C12_CompletedBeforeReply ==
    \A ck \in AllHandlers :
        LET h == H(ck)
        IN  (/\ Turn5(h)
             /\ CountsCompletion(h.user)
             /\ h.pc \in {"mStream", "mChunks", "done"})
              => /\ Len(h.out) >= 1
                 /\ CompletedPositions(h) = {1}
                 /\ h.out[1].arg = [daily_conversations |-> h.newCount]
                 /\ \A j \in ReplyPositions(h) : j > 1

C12_Witness ==
    \E ck \in AllHandlers :
        /\ Turn5(H(ck))
        /\ H(ck).pc = "done"
        /\ EvNames(H(ck).out)
             = <<"conversationCompleted", "aiMessageChunk", "aiMessageEnd">>

----------------------------------------------------------------------------
\* a getUserData that found the profile, needed an update and whose update
\* failed
UnreconciledFetch(h) ==
    /\ h.kind = "getUserData" /\ h.pc = "done"
    /\ h.user # Null /\ NeedsUpdate(h.updates) /\ h.wver = 0

(* C13: when the update of a getUserData fails, the handler emits one
   userData carrying the profile as it was read and nothing else (no
   userDataError, no second event), and the table is left as it was; a later
   getUserData of the same user on the same day that reads the row while it
   is still as the failed one read it computes the same updates and issues
   the update again. *)
C13_FailedUpdateFallsBack ==
    [][\A c \in Sockets, k \in Slots :
          LET h == handlers[c][k]
          IN  /\ (h.pc = "gUpdate" /\ UnreconciledFetch(handlers'[c][k])) =>
                    /\ EvNames(handlers'[c][k].out) = <<"userData">>
                    /\ handlers'[c][k].out[1].arg = h.user[1]
                    /\ profiles' = profiles
                    /\ ver' = ver
              /\ \A d \in Sockets, j \in Slots :
                    (/\ UnreconciledFetch(h)
                     /\ ReadReturns(d, j, "gRead")
                     /\ handlers'[d][j].user # Null
                     /\ handlers[d][j].userId = h.userId
                     /\ handlers[d][j].today = h.today
                     /\ ver[h.userId] = h.rver)
                       => /\ handlers'[d][j].user = h.user
                          /\ handlers'[d][j].updates = h.updates
                          /\ handlers'[d][j].pc = "gUpdate"
    ]_vars

C13_Witness ==
    \E c \in Sockets, k \in Slots, j \in Slots :
        /\ UnreconciledFetch(handlers[c][k])
        /\ EvNames(handlers[c][k].out) = <<"userData">>
        /\ handlers[c][k].out[1].arg = handlers[c][k].user[1]
        /\ handlers[c][k].user[1].last_login_date = handlers[c][k].yesterdayStr
        /\ profiles[handlers[c][k].userId] = handlers[c][k].user[1]
        /\ handlers[c][j].pc = "gUpdate"
        /\ handlers[c][j].today = handlers[c][k].today
        /\ handlers[c][j].updates = handlers[c][k].updates

----------------------------------------------------------------------------
\* a sendMessage arrives on a socket that has a session
CountedMessage(c, k) ==
    Receives(c, k, "sendMessage") /\ chatSessions[c] # 0

(* C15: a session's userMessageCount is the number of sendMessage events
   received for it: a session enters the registry with count 0; the arrival
   of a sendMessage raises the count of the socket's session by exactly 1,
   in the same step, before the handler has read the table or called the
   provider; no other step changes the count of any session, so it never
   decreases; and a reply that ends with 'Failed to get AI response.'
   leaves chatSessions and the session as they are, the count of the failed
   turn included. *)
C15_CountIsMessagesReceived ==
    [][/\ Len(sessions') >= Len(sessions)
       /\ \A sid \in DOMAIN sessions' \ DOMAIN sessions :
             sessions'[sid].userMessageCount = 0
       /\ \A c \in Sockets, k \in Slots :
             CountedMessage(c, k) =>
                 LET sid == chatSessions[c]
                 IN  /\ sessions'[sid].userMessageCount
                          = sessions[sid].userMessageCount + 1
                     /\ \A other \in DOMAIN sessions \ {sid} :
                           sessions'[other] = sessions[other]
                     /\ handlers'[c][k].userMessageCount
                          = sessions'[sid].userMessageCount
                     /\ handlers'[c][k].pc \in {"mRead", "mStream"}
                     /\ handlers'[c][k].user = Null
                     /\ handlers'[c][k].stream = << >>
                     /\ handlers'[c][k].out = << >>
       /\ (~\E c \in Sockets, k \in Slots : CountedMessage(c, k)) =>
             \A sid \in DOMAIN sessions : sessions'[sid] = sessions[sid]
       /\ \A c \in Sockets, k \in Slots :
             (~FailedReply(handlers[c][k]) /\ FailedReply(handlers'[c][k])) =>
                 /\ chatSessions' = chatSessions
                 /\ sessions' = sessions
                 /\ sessions'[handlers'[c][k].chat].userMessageCount
                      >= handlers'[c][k].userMessageCount
    ]_vars

C15_Witness ==
    \E c \in Sockets, k \in Slots :
        /\ FailedReply(handlers[c][k])
        /\ handlers[c][k].userMessageCount = CompletionThreshold - 1
        /\ chatSessions[c] = handlers[c][k].chat
        /\ sessions[chatSessions[c]].userMessageCount = CompletionThreshold
        /\ \E j \in Slots : handlers[c][j].pc = "mRead"

----------------------------------------------------------------------------
\* the step of a handler in which it emits conversationCompleted
Announces(c, k) ==
    /\ ~Emitted(handlers[c][k], "conversationCompleted")
    /\ Emitted(handlers'[c][k], "conversationCompleted")
    /\ handlers'[c][k].chat = handlers[c][k].chat

(* C17 as stated: conversationCompleted is emitted only by a handler whose
   update of the profile succeeded, and the daily_conversations it carries is
   the value stored for that user right after that update; a handler whose
   update failed emits no conversationCompleted. *)
C17_AnnouncedOnlyIfWritten ==
    [][\A c \in Sockets, k \in Slots :
          Announces(c, k) =>
              LET h == handlers'[c][k]
              IN  /\ h.wver # 0
                  /\ ver'[h.userId] = ver[h.userId] + 1
                  /\ profiles'[h.userId].daily_conversations
                       = h.out[Len(h.out)].arg.daily_conversations
    ]_vars

----------------------------------------------------------------------------
\* the error event of a handler that stops at its validation or at its lookup
RejectionOf(kind, missing) ==
    IF kind = "getUserData"
    THEN Ev("userDataError", IF missing THEN "Missing userId"
                                        ELSE "Could not find user profile.")
    ELSE Ev("error", IF missing THEN "Missing userId." ELSE "User not found.")

NamesUser(kind) == kind \in {"getUserData", "startConversation"}

OnlyChanges(c, k) ==
    \A d \in Sockets, j \in Slots :
        <<d, j>> # <<c, k>> => handlers'[d][j] = handlers[d][j]

(* C18: a getUserData or startConversation that arrives without a userId
   ends at once with one error event on its own socket: it issues no read,
   no update and no provider call, and the table, chatSessions and the
   session objects are unchanged.  A getUserData or startConversation whose
   profile read returns nothing ends with one error event, and that step
   writes nothing to the table and creates or replaces no session. *)
C18_RejectedRequestsOnlyReport ==
    [][\A c \in Sockets, k \in Slots :
          LET h  == handlers[c][k]
              h2 == handlers'[c][k]
          IN  /\ (/\ \/ Receives(c, k, "getUserData")
                     \/ Receives(c, k, "startConversation")
                  /\ h2.userId = NoUserId) =>
                    /\ h2.pc = "done"
                    /\ h2.out = <<RejectionOf(h2.kind, TRUE)>>
                    /\ h2.user = Null /\ h2.chat = 0
                    /\ OnlyChanges(c, k)
                    /\ UNCHANGED <<profiles, ver, chatSessions, sessions,
                                   completions, connected>>
              /\ (/\ NamesUser(h.kind)
                  /\ \/ ReadReturns(c, k, "gRead")
                     \/ ReadReturns(c, k, "sRead")
                  /\ h2.user = Null) =>
                    /\ h2.pc = "done"
                    /\ h2.out = <<RejectionOf(h.kind, FALSE)>>
                    /\ h2.chat = 0
                    /\ OnlyChanges(c, k)
                    /\ UNCHANGED <<profiles, ver, chatSessions, sessions,
                                   completions, connected>>
    ]_vars

C18_Witness ==
    \E c \in Sockets, k \in Slots, d \in Sockets, j \in Slots :
        /\ handlers[c][k].kind = "getUserData"
        /\ handlers[c][k].userId = NoUserId
        /\ handlers[c][k].out = <<RejectionOf("getUserData", TRUE)>>
        /\ handlers[d][j].kind = "startConversation"
        /\ handlers[d][j].userId = "u2"
        /\ handlers[d][j].out = <<RejectionOf("startConversation", FALSE)>>
        /\ chatSessions[d] = 0

----------------------------------------------------------------------------
\* the step in which the update of a completion is applied to the table
RecordsCompletion(c, k) ==
    /\ handlers[c][k].pc = "mUpdate"
    /\ handlers'[c][k].wver # 0

(* C14 as stated: every completion whose update is applied raises the
   stored daily_conversations of its user by exactly 1, however the
   fifth-message handlers of that user's sessions are interleaved. *)
C14_EachCompletionAddsOne ==
    [][\A c \in Sockets, k \in Slots :
          RecordsCompletion(c, k) =>
              profiles'[handlers[c][k].userId].daily_conversations
                  = profiles[handlers[c][k].userId].daily_conversations + 1
    ]_vars

(* C14 as amended: a completion whose update is applied stores the
   daily_conversations its own read returned plus 1, and today's date; it
   raises the stored count by exactly 1 when no other write to that row came
   between its read and its update.  Completions of one user whose reads
   both precede both updates store the same value. *)
C14_CompletionStoresReadPlusOne ==
    [][\A c \in Sockets, k \in Slots :
          RecordsCompletion(c, k) =>
              LET h == handlers[c][k]
                  u == h.userId
              IN  /\ profiles'[u].daily_conversations
                       = h.user[1].daily_conversations + 1
                  /\ profiles'[u].last_conversation_date = h.writeDay
                  /\ ver[u] = h.rver =>
                        profiles'[u].daily_conversations
                            = profiles[u].daily_conversations + 1
                  /\ \A d \in Sockets, j \in Slots :
                        (/\ handlers[d][j].kind = "sendMessage"
                         /\ handlers[d][j].wver # 0
                         /\ handlers[d][j].userId = u
                         /\ handlers[d][j].rver = h.rver)
                           => profiles'[u].daily_conversations
                                  = handlers[d][j].newCount
    ]_vars

C14_Witness ==
    \E c \in Sockets, d \in Sockets, k \in Slots, j \in Slots :
        /\ c # d
        /\ handlers[c][k].wver = 1 /\ handlers[d][j].wver = 2
        /\ handlers[c][k].rver = 0 /\ handlers[d][j].rver = 0
        /\ handlers[c][k].chat # handlers[d][j].chat
        /\ completions[handlers[c][k].chat] = 1
        /\ completions[handlers[d][j].chat] = 1
        /\ profiles["u1"].daily_conversations
             = handlers[c][k].user[1].daily_conversations + 1

----------------------------------------------------------------------------
\* the terminal events of a message: aiMessageEnd and the conversation error
Terminals(h) == CountOf(h, "aiMessageEnd") + CountOf(h, "error")

InFlightMessage(h) ==
    h.kind = "sendMessage" /\ h.chat # 0 /\ h.pc # "done"

AnsweredMessage(h) ==
    h.kind = "sendMessage" /\ h.chat # 0 /\ h.pc = "done" /\ Terminals(h) = 1

(* C20: with every step of a sendMessage handler weakly fair, every
   sendMessage received on a socket that has a session ends with exactly
   one terminal event, aiMessageEnd or a conversation error: while it is in
   flight it has emitted none, it never emits two, and it eventually returns
   having emitted one.  On turn 5 this holds whatever the profile read and
   the update returned: the handler always goes on to ask the provider for
   the reply. *)
C20_EveryMessageEndsOnce ==
    /\ [](\A c \in Sockets, k \in Slots :
             LET h == handlers[c][k]
             IN  (h.kind = "sendMessage" /\ h.chat # 0) =>
                     Terminals(h) = (IF h.pc = "done" THEN 1 ELSE 0))
    /\ \A c \in Sockets, k \in Slots :
          /\ InFlightMessage(handlers[c][k]) ~> AnsweredMessage(handlers[c][k])
          /\ handlers[c][k].pc \in {"mRead", "mUpdate"}
                ~> handlers[c][k].pc = "mStream"

C20_Witness ==
    \E c \in Sockets, k \in Slots :
        /\ AnsweredMessage(handlers[c][k])
        /\ handlers[c][k].userMessageCount = CompletionThreshold
        /\ handlers[c][k].user = Null
        /\ EvNames(handlers[c][k].out) = <<"aiMessageChunk", "aiMessageEnd">>

====
